---- MODULE Spec2Model ----
(***************************************************************************)
(* Model of car.py: four-wheel differential chassis driven from a Tk GUI    *)
(* and an optional pygame joystick.                                         *)
(*                                                                          *)
(* Floats are fixed-point integers: the value 1.0 is Scale.  One canvas     *)
(* pixel is Scale / Radius = 5 units, 0.1 is Scale \div 10 = 40 units.       *)
(*                                                                          *)
(* Tk runs every callback to completion on one thread, so exactly one       *)
(* handler is in progress at a time.  A handler is started by an event      *)
(* action (update, on_press, ...), which pushes the calls of its body on    *)
(* `todo`; the step actions (quick, apply, m_off, ...) then execute the     *)
(* pushed calls one statement at a time, so the states inside drive() are   *)
(* states of the model.  No event is accepted while todo is non-empty.      *)
(***************************************************************************)
EXTENDS Integers, Sequences, FiniteSets, TLC

VARIABLES
    chan,       \* the eight DigitalOutputDevice values: channel name -> BOOLEAN
    mode_4wd,   \* global mode_4wd
    throttle,   \* self.throttle
    turn,       \* self.turn
    joy,        \* self.joy is not None
    closed,     \* root.destroy() has run
    handler,    \* name of the callback in progress, or of the last one run
    todo,       \* calls and statements of the running callback still to execute
    pc,         \* name of the event or statement executed last
    lx, ly,     \* locals of update(): the axis sample
    btn,        \* the button sample of update(): [A, B, X, LB, RB -> BOOLEAN]
    v_l, v_r,   \* arguments of the drive() call in progress / last made
    pre,        \* history: <<throttle, turn>> when the current callback started
    preMode,    \* history: mode_4wd when the current callback started
    guiChan,    \* history: chan when the current GUI callback started
    quickHeld,  \* history: the latest joystick tick had A, B or X held
    prevQuick,  \* history: the joystick tick before the latest had A, B or X held
    connected,  \* environment: the joystick device opened at start is still plugged in
    ticking,    \* root.after(50, self.update) is pending
    resets      \* history: stop_all() calls completed in the current callback

vars == <<chan, mode_4wd, throttle, turn, joy, closed, handler, todo, pc,
          lx, ly, btn, v_l, v_r, pre, preMode, guiChan, quickHeld, prevQuick,
          connected, ticking, resets>>

----------------------------------------------------------------------------
(* Fixed point and program constants                                        *)

Radius == 80
Scale == 5 * Radius
Deadzone == Scale \div 10
Centre == 100

FL_FWD == "FL_FWD"
FL_REV == "FL_REV"
FR_FWD == "FR_FWD"
FR_REV == "FR_REV"
RL_FWD == "RL_FWD"
RL_REV == "RL_REV"
RR_FWD == "RR_FWD"
RR_REV == "RR_REV"

ALL == <<FL_FWD, FL_REV, FR_FWD, FR_REV, RL_FWD, RL_REV, RR_FWD, RR_REV>>

Channels == {ALL[i] : i \in 1..Len(ALL)}
Wheels == {"FL", "FR", "RL", "RR"}
FwdOf == [w \in Wheels |->
            CASE w = "FL" -> FL_FWD [] w = "FR" -> FR_FWD
              [] w = "RL" -> RL_FWD [] w = "RR" -> RR_FWD]
RevOf == [w \in Wheels |->
            CASE w = "FL" -> FL_REV [] w = "FR" -> FR_REV
              [] w = "RL" -> RL_REV [] w = "RR" -> RR_REV]

AllOffChan == [c \in Channels |-> FALSE]

Min(a, b) == IF a < b THEN a ELSE b
Max(a, b) == IF a > b THEN a ELSE b
Abs(a) == IF a < 0 THEN -a ELSE a

\* max(-1, min(1, x))
Clamp(x) == Max(-Scale, Min(Scale, x))

----------------------------------------------------------------------------
(* Inputs                                                                   *)

\* Joystick axis samples <<axis 0, axis 1>>; pygame reports axes in [-1, 1].
AxisSamples ==
    { <<0, 0>>,
      <<0, -Scale>>,                         \* (-1, 0) as (throttle, turn)
      <<(3 * Scale) \div 100, Scale \div 20>>, \* throttle 0.05, turn 0.03
      <<0, Deadzone>>,                       \* throttle exactly 0.1
      <<Deadzone + 1, 0>>,                   \* turn just above 0.1
      <<Scale, Scale>>,                      \* throttle + turn = 2, clamped
      <<-(Scale \div 2), Scale \div 4>> }

NoButtons == [A |-> FALSE, B |-> FALSE, X |-> FALSE, LB |-> FALSE, RB |-> FALSE]
ButtonSamples == [A : BOOLEAN, B : BOOLEAN, X : BOOLEAN, LB : BOOLEAN, RB : BOOLEAN]

\* What joy.get_axis / joy.get_button return for a device that is plugged in
\* (c) or has been removed: SDL recentres the axes and releases the buttons
\* of a removed device.  A build that keeps the last values instead behaves
\* as a plugged-in device holding its sample.
PolledAxes(c) == IF c THEN AxisSamples ELSE { <<0, 0>> }
PolledButtons(c) == IF c THEN ButtonSamples ELSE { NoButtons }

\* Pointer positions <<event.x, event.y>> on the 200 x 200 canvas.  The
\* positions outside the pad circle have an integral distance to the centre,
\* so the rescaling dx * 80 / dist is exact in fixed point.
Pixels ==
    { <<100, 100>>,     \* centre: (0, 0)
      <<100, 60>>,      \* throttle 0.5, turn 0
      <<108, 100>>,     \* turn exactly 0.1
      <<100, 20>>,      \* throttle 1
      <<160, 20>>,      \* outside the pad: dist 100, rescaled to (0.8, 0.6)
      <<0, 100>> }      \* outside the pad: rescaled to turn -1

\* The A/B/X entries of btn_configs: lambda: self.quick(t, r)
QuickButtons == { <<Scale, 0>>, <<0, Scale>>, <<0, 0>> }

----------------------------------------------------------------------------
(* Calls and statements pushed on todo                                      *)

Op(o, w, x, y) == [op |-> o, w |-> w, x |-> x, y |-> y]

Idle == todo = <<>>
Head1 == Head(todo)
Rest == Tail(todo)

----------------------------------------------------------------------------
(* Pure parts of the code                                                   *)

\* Variant of compensate: the rear inversion is dropped
compensate_plain(val, is_rear) == val

\* compensate(val, is_rear)
compensate(val, is_rear) == IF is_rear THEN -val ELSE val

\* Variant of drive.apply: thresholds compared with >= and <=
WheelWrite_inclusive(c, fwd, rev, val) ==
    IF val >= Deadzone THEN [c EXCEPT ![fwd] = TRUE]
    ELSE IF val <= -Deadzone THEN [c EXCEPT ![rev] = TRUE]
    ELSE c

\* drive.apply(fwd_device, rev_device, val): the channel values after the call
WheelWrite(c, fwd, rev, val) ==
    IF val > Deadzone THEN [c EXCEPT ![fwd] = TRUE]
    ELSE IF val < -Deadzone THEN [c EXCEPT ![rev] = TRUE]
    ELSE c

\* Variant of stop_all: no channel is switched off
StopAllBody_none == << >>

\* Variant of stop_all: the last device of ALL is left out of the loop
StopAllBody_short == [i \in 1..(Len(ALL) - 1) |-> Op("m_off", ALL[i], 0, 0)]

\* stop_all(): one m.off() per element of ALL, in list order
StopAllBody == [i \in 1..Len(ALL) |-> Op("m_off", ALL[i], 0, 0)]

\* Variant of drive: the mode flag is ignored, all four wheels are driven
DriveBody_allwheels(m4, vl, vr) ==
    << Op("apply_wheel", "FL", compensate(vl, FALSE), 0),
       Op("apply_wheel", "RL", compensate(vl, TRUE), 0),
       Op("apply_wheel", "FR", compensate(vr, FALSE), 0),
       Op("apply_wheel", "RR", compensate(vr, TRUE), 0) >>

\* drive(), lines 66-77: the apply(...) calls made under mode m4
DriveBody(m4, vl, vr) ==
    IF m4
    THEN << Op("apply_wheel", "FL", compensate(vl, FALSE), 0),
            Op("apply_wheel", "RL", compensate(vl, TRUE), 0),
            Op("apply_wheel", "FR", compensate(vr, FALSE), 0),
            Op("apply_wheel", "RR", compensate(vr, TRUE), 0) >>
    ELSE << Op("apply_wheel", "FL", compensate(vl, FALSE), 0),
            Op("apply_wheel", "RR", compensate(vr, TRUE), 0) >>

\* math.hypot(dx, dy), as the integer square root
Hypot(dx, dy) ==
    CHOOSE d \in 0..(2 * Centre) :
        d * d <= dx * dx + dy * dy /\ (d + 1) * (d + 1) > dx * dx + dy * dy

\* calc_axes(x, y): <<self.throttle, self.turn>> it stores
CalcAxes(x, y) ==
    LET dx == x - Centre
        dy == Centre - y
        dist == Hypot(dx, dy)
        out == dx * dx + dy * dy > Radius * Radius
        dx2 == IF out THEN (dx * Radius * Scale) \div dist ELSE dx * Scale
        dy2 == IF out THEN (dy * Radius * Scale) \div dist ELSE dy * Scale
    IN  << dy2 \div Radius, dx2 \div Radius >>

\* Variant of update: X is tested before A and B
UpdateBody_xfirst(ax0, ax1, b) ==
    << Op("axes_assign", "", ax1, ax0) >>
    \o (IF b.X THEN << Op("quick", "", 0, 0) >> ELSE << >>)
    \o (IF b.A THEN << Op("quick", "", Scale, 0) >> ELSE << >>)
    \o (IF b.B THEN << Op("quick", "", 0, Scale) >> ELSE << >>)
    \o (IF b.LB THEN << Op("set_4wd", "", 0, 0) >> ELSE << >>)
    \o (IF b.RB THEN << Op("set_eco", "", 0, 0) >> ELSE << >>)
    \o << Op("apply", "", 0, 0) >>

\* Variant of update: the two axes are swapped in the assignment
UpdateBody_swapped(ax0, ax1, b) ==
    << Op("axes_assign", "", ax0, ax1) >>
    \o (IF b.A THEN << Op("quick", "", Scale, 0) >> ELSE << >>)
    \o (IF b.B THEN << Op("quick", "", 0, Scale) >> ELSE << >>)
    \o (IF b.X THEN << Op("quick", "", 0, 0) >> ELSE << >>)
    \o (IF b.LB THEN << Op("set_4wd", "", 0, 0) >> ELSE << >>)
    \o (IF b.RB THEN << Op("set_eco", "", 0, 0) >> ELSE << >>)
    \o << Op("apply", "", 0, 0) >>

\* Variant of update: RB is tested before LB
UpdateBody_rbfirst(ax0, ax1, b) ==
    << Op("axes_assign", "", ax1, ax0) >>
    \o (IF b.A THEN << Op("quick", "", Scale, 0) >> ELSE << >>)
    \o (IF b.B THEN << Op("quick", "", 0, Scale) >> ELSE << >>)
    \o (IF b.X THEN << Op("quick", "", 0, 0) >> ELSE << >>)
    \o (IF b.RB THEN << Op("set_eco", "", 0, 0) >> ELSE << >>)
    \o (IF b.LB THEN << Op("set_4wd", "", 0, 0) >> ELSE << >>)
    \o << Op("apply", "", 0, 0) >>

\* Variant of update: the quick buttons are tested with elif, first match only
UpdateBody_elif(ax0, ax1, b) ==
    << Op("axes_assign", "", ax1, ax0) >>
    \o (IF b.A THEN << Op("quick", "", Scale, 0) >>
        ELSE IF b.B THEN << Op("quick", "", 0, Scale) >>
        ELSE IF b.X THEN << Op("quick", "", 0, 0) >> ELSE << >>)
    \o (IF b.LB THEN << Op("set_4wd", "", 0, 0) >> ELSE << >>)
    \o (IF b.RB THEN << Op("set_eco", "", 0, 0) >> ELSE << >>)
    \o << Op("apply", "", 0, 0) >>

\* update(), lines 196-209, for the sample (axis 0, axis 1, buttons)
UpdateBody(ax0, ax1, b) ==
    << Op("axes_assign", "", ax1, ax0) >>
    \o (IF b.A THEN << Op("quick", "", Scale, 0) >> ELSE << >>)
    \o (IF b.B THEN << Op("quick", "", 0, Scale) >> ELSE << >>)
    \o (IF b.X THEN << Op("quick", "", 0, 0) >> ELSE << >>)
    \o (IF b.LB THEN << Op("set_4wd", "", 0, 0) >> ELSE << >>)
    \o (IF b.RB THEN << Op("set_eco", "", 0, 0) >> ELSE << >>)
    \o << Op("apply", "", 0, 0) >>

\* Variant of on_close: the window is destroyed without stop_all()
OnCloseBody_nostop == << Op("destroy", "", 0, 0) >>

\* on_close(): stop_all(), then pygame.quit() and root.destroy()
OnCloseBody == StopAllBody \o << Op("destroy", "", 0, 0) >>

\* The channel values drive(vl, vr) leaves under mode m4, whatever they were
RECURSIVE RunWheels(_, _)
RunWheels(c, ops) ==
    IF ops = << >> THEN c
    ELSE RunWheels(WheelWrite(c, FwdOf[Head(ops).w], RevOf[Head(ops).w], Head(ops).x),
                   Tail(ops))
DriveResult(vl, vr, m4) == RunWheels(AllOffChan, DriveBody(m4, vl, vr))

\* CarApp.apply(), lines 183-184
VLeft(t, r) == Clamp(t + r)
VRight(t, r) == Clamp(t - r)

----------------------------------------------------------------------------
(* State after construction, before the first update() of line 125          *)

Init ==
    /\ chan = AllOffChan
    /\ mode_4wd = TRUE
    /\ throttle = 0
    /\ turn = 0
    /\ joy \in BOOLEAN
    /\ closed = FALSE
    /\ handler = "init"
    /\ todo = << >>
    /\ pc = "init"
    /\ lx = 0
    /\ ly = 0
    /\ btn = NoButtons
    /\ v_l = 0
    /\ v_r = 0
    /\ pre = <<0, 0>>
    /\ preMode = TRUE
    /\ guiChan = AllOffChan
    /\ quickHeld = FALSE
    /\ prevQuick = FALSE
    /\ connected = TRUE
    /\ ticking = TRUE
    /\ resets = 0

\* A callback can start: none is running and the window exists
CanStart == Idle /\ ~closed

\* Entry of the GUI callback named h: the bookkeeping common to all of them
EnterGui(h) ==
    /\ handler' = h
    /\ pc' = h
    /\ pre' = <<throttle, turn>>
    /\ preMode' = mode_4wd
    /\ guiChan' = chan
    /\ lx' = 0 /\ ly' = 0 /\ btn' = NoButtons
    /\ resets' = 0
    /\ UNCHANGED <<chan, mode_4wd, throttle, turn, joy, closed, v_l, v_r,
                   quickHeld, prevQuick, connected, ticking>>

----------------------------------------------------------------------------
(* Events: each starts one callback                                         *)

\* Variant of update: the joystick branch is taken whether or not a
\* controller was found
update_nojoycheck ==
    /\ CanStart
    /\ ticking
    /\ handler' = "update"
    /\ pc' = "update"
    /\ pre' = <<throttle, turn>>
    /\ preMode' = mode_4wd
    /\ guiChan' = AllOffChan
    /\ \E s \in PolledAxes(connected), b \in PolledButtons(connected) :
          /\ lx' = s[1] /\ ly' = s[2] /\ btn' = b
          /\ todo' = UpdateBody(s[1], s[2], b)
          /\ quickHeld' = (b.A \/ b.B \/ b.X)
          /\ prevQuick' = quickHeld
    /\ resets' = 0
    /\ UNCHANGED <<chan, mode_4wd, throttle, turn, joy, closed, v_l, v_r,
                   connected, ticking>>

\* update(), lines 191-195: the timer tick; samples the joystick if present
update ==
    /\ CanStart
    /\ ticking
    /\ handler' = "update"
    /\ pc' = "update"
    /\ pre' = <<throttle, turn>>
    /\ preMode' = mode_4wd
    /\ guiChan' = AllOffChan
    /\ IF joy
       THEN \E s \in PolledAxes(connected), b \in PolledButtons(connected) :
               /\ lx' = s[1] /\ ly' = s[2] /\ btn' = b
               /\ todo' = UpdateBody(s[1], s[2], b)
               /\ quickHeld' = (b.A \/ b.B \/ b.X)
               /\ prevQuick' = quickHeld
       ELSE /\ lx' = 0 /\ ly' = 0 /\ btn' = NoButtons
            /\ todo' = << >>
            /\ UNCHANGED <<quickHeld, prevQuick>>
    /\ resets' = 0
    /\ UNCHANGED <<chan, mode_4wd, throttle, turn, joy, closed, v_l, v_r,
                   connected, ticking>>

\* on_press(event)
on_press ==
    /\ CanStart
    /\ \E p \in Pixels : todo' = << Op("calc_axes", "", p[1], p[2]) >>
    /\ EnterGui("on_press")

\* on_drag(event)
on_drag ==
    /\ CanStart
    /\ \E p \in Pixels : todo' = << Op("calc_axes", "", p[1], p[2]) >>
    /\ EnterGui("on_drag")

\* GUI buttons A:Forward, B:Spin, X:Stop
button_quick ==
    /\ CanStart
    /\ \E q \in QuickButtons : todo' = << Op("quick", "", q[1], q[2]) >>
    /\ EnterGui("button_quick")

\* GUI button LB:4WD
button_LB ==
    /\ CanStart
    /\ todo' = << Op("set_4wd", "", 0, 0) >>
    /\ EnterGui("button_LB")

\* GUI button RB:Eco
button_RB ==
    /\ CanStart
    /\ todo' = << Op("set_eco", "", 0, 0) >>
    /\ EnterGui("button_RB")

\* WM_DELETE_WINDOW
on_close ==
    /\ CanStart
    /\ todo' = OnCloseBody
    /\ EnterGui("on_close")

----------------------------------------------------------------------------
(* Steps of the running callback                                            *)

Step(o) ==
    /\ todo # << >>
    /\ Head1.op = o
    /\ pc' = o

\* update(), line 196: self.throttle, self.turn = ly, lx
axes_assign ==
    /\ Step("axes_assign")
    /\ throttle' = Head1.x
    /\ turn' = Head1.y
    /\ todo' = Rest
    /\ UNCHANGED <<chan, mode_4wd, joy, closed, handler, lx, ly, btn, v_l, v_r,
                   pre, preMode, guiChan, quickHeld, prevQuick,
                   connected, ticking, resets>>

\* quick(t, r)
quick ==
    /\ Step("quick")
    /\ throttle' = Head1.x
    /\ turn' = Head1.y
    /\ todo' = << Op("apply", "", 0, 0) >> \o Rest
    /\ UNCHANGED <<chan, mode_4wd, joy, closed, handler, lx, ly, btn, v_l, v_r,
                   pre, preMode, guiChan, quickHeld, prevQuick,
                   connected, ticking, resets>>

\* calc_axes(x, y)
calc_axes ==
    /\ Step("calc_axes")
    /\ throttle' = CalcAxes(Head1.x, Head1.y)[1]
    /\ turn' = CalcAxes(Head1.x, Head1.y)[2]
    /\ todo' = << Op("apply", "", 0, 0) >> \o Rest
    /\ UNCHANGED <<chan, mode_4wd, joy, closed, handler, lx, ly, btn, v_l, v_r,
                   pre, preMode, guiChan, quickHeld, prevQuick,
                   connected, ticking, resets>>

\* Variant of CarApp.apply / drive: the wheels are written without stop_all()
apply_nostop ==
    /\ Step("apply")
    /\ v_l' = VLeft(throttle, turn)
    /\ v_r' = VRight(throttle, turn)
    /\ todo' = << Op("drive_mode", "", 0, 0) >> \o Rest
    /\ UNCHANGED <<chan, mode_4wd, throttle, turn, joy, closed, handler, lx, ly,
                   btn, pre, preMode, guiChan, quickHeld, prevQuick,
                   connected, ticking, resets>>

\* CarApp.apply(): computes v_l, v_r and calls drive(v_l, v_r)
apply ==
    /\ Step("apply")
    /\ v_l' = VLeft(throttle, turn)
    /\ v_r' = VRight(throttle, turn)
    /\ todo' = StopAllBody \o << Op("drive_mode", "", 0, 0) >> \o Rest
    /\ UNCHANGED <<chan, mode_4wd, throttle, turn, joy, closed, handler, lx, ly,
                   btn, pre, preMode, guiChan, quickHeld, prevQuick,
                   connected, ticking, resets>>

\* stop_all(): one iteration, m.off()
m_off ==
    /\ Step("m_off")
    /\ chan' = [chan EXCEPT ![Head1.w] = FALSE]
    /\ todo' = Rest
    /\ resets' = IF Rest # << >> /\ Head(Rest).op = "m_off" THEN resets ELSE resets + 1
    /\ UNCHANGED <<mode_4wd, throttle, turn, joy, closed, handler, lx, ly, btn,
                   v_l, v_r, pre, preMode, guiChan, quickHeld, prevQuick,
                   connected, ticking>>

\* drive(), line 66: if mode_4wd
drive_mode ==
    /\ Step("drive_mode")
    /\ todo' = DriveBody(mode_4wd, v_l, v_r) \o << Op("drive_return", "", 0, 0) >> \o Rest
    /\ UNCHANGED <<chan, mode_4wd, throttle, turn, joy, closed, handler, lx, ly,
                   btn, v_l, v_r, pre, preMode, guiChan, quickHeld, prevQuick,
                   connected, ticking, resets>>

\* drive.apply(fwd_device, rev_device, val) for one wheel
apply_wheel ==
    /\ Step("apply_wheel")
    /\ chan' = WheelWrite(chan, FwdOf[Head1.w], RevOf[Head1.w], Head1.x)
    /\ todo' = Rest
    /\ UNCHANGED <<mode_4wd, throttle, turn, joy, closed, handler, lx, ly, btn,
                   v_l, v_r, pre, preMode, guiChan, quickHeld, prevQuick,
                   connected, ticking, resets>>

\* drive() returns
drive_return ==
    /\ Step("drive_return")
    /\ todo' = Rest
    /\ UNCHANGED <<chan, mode_4wd, throttle, turn, joy, closed, handler, lx, ly,
                   btn, v_l, v_r, pre, preMode, guiChan, quickHeld, prevQuick,
                   connected, ticking, resets>>

\* set_4wd()
set_4wd ==
    /\ Step("set_4wd")
    /\ mode_4wd' = TRUE
    /\ todo' = Rest
    /\ UNCHANGED <<chan, throttle, turn, joy, closed, handler, lx, ly, btn,
                   v_l, v_r, pre, preMode, guiChan, quickHeld, prevQuick,
                   connected, ticking, resets>>

\* Variant of set_eco: the flag is toggled instead of cleared
set_eco_toggle ==
    /\ Step("set_eco")
    /\ mode_4wd' = ~mode_4wd
    /\ todo' = Rest
    /\ UNCHANGED <<chan, throttle, turn, joy, closed, handler, lx, ly, btn,
                   v_l, v_r, pre, preMode, guiChan, quickHeld, prevQuick,
                   connected, ticking, resets>>

\* set_eco()
set_eco ==
    /\ Step("set_eco")
    /\ mode_4wd' = FALSE
    /\ todo' = Rest
    /\ UNCHANGED <<chan, throttle, turn, joy, closed, handler, lx, ly, btn,
                   v_l, v_r, pre, preMode, guiChan, quickHeld, prevQuick,
                   connected, ticking, resets>>

\* on_close(), lines 216-218: pygame.quit() and root.destroy()
destroy ==
    /\ Step("destroy")
    /\ closed' = TRUE
    /\ todo' = Rest
    /\ UNCHANGED <<chan, mode_4wd, throttle, turn, joy, handler, lx, ly, btn,
                   v_l, v_r, pre, preMode, guiChan, quickHeld, prevQuick,
                   connected, ticking, resets>>

Next ==
    \/ update
    \/ on_press
    \/ on_drag
    \/ button_quick
    \/ button_LB
    \/ button_RB
    \/ on_close
    \/ axes_assign
    \/ quick
    \/ calc_axes
    \/ apply
    \/ m_off
    \/ drive_mode
    \/ apply_wheel
    \/ drive_return
    \/ set_4wd
    \/ set_eco
    \/ destroy

Spec == Init /\ [][Next]_vars

----------------------------------------------------------------------------
(* The joystick is unplugged during the run                                 *)

\* Environment: the device is removed between two callbacks.  self.joy is
\* assigned in __init__ only, so it keeps the Joystick object.
disconnect ==
    /\ CanStart
    /\ joy
    /\ connected
    /\ connected' = FALSE
    /\ pc' = "disconnect"
    /\ UNCHANGED <<chan, mode_4wd, throttle, turn, joy, closed, handler, todo,
                   lx, ly, btn, v_l, v_r, pre, preMode, guiChan, quickHeld,
                   prevQuick, ticking, resets>>

\* update(), lines 192-195, when polling the removed device raises
\* pygame.error: the callback ends before line 196 and before the
\* root.after() of line 211, so no further tick is scheduled.
update_raise ==
    /\ CanStart
    /\ ticking
    /\ joy
    /\ ~connected
    /\ handler' = "update_raise"
    /\ pc' = "update_raise"
    /\ todo' = << >>
    /\ ticking' = FALSE
    /\ pre' = <<throttle, turn>>
    /\ preMode' = mode_4wd
    /\ guiChan' = AllOffChan
    /\ lx' = 0 /\ ly' = 0 /\ btn' = NoButtons
    /\ resets' = 0
    /\ UNCHANGED <<chan, mode_4wd, throttle, turn, joy, closed, v_l, v_r,
                   quickHeld, prevQuick, connected>>

NextHotplug ==
    \/ Next
    \/ disconnect
    \/ update_raise

SpecHotplug == Init /\ [][NextHotplug]_vars

----------------------------------------------------------------------------
(* Vocabulary of the properties                                             *)

TypeOK ==
    /\ chan \in [Channels -> BOOLEAN]
    /\ mode_4wd \in BOOLEAN
    /\ throttle \in -Scale..Scale
    /\ turn \in -Scale..Scale
    /\ v_l \in -Scale..Scale
    /\ v_r \in -Scale..Scale
    /\ btn \in ButtonSamples

\* Tri-state of wheel w read off the channels: Forward when its forward
\* channel is asserted, Reverse when its reverse channel is, Off otherwise
WheelState(w) ==
    IF chan[FwdOf[w]] THEN "Forward"
    ELSE IF chan[RevOf[w]] THEN "Reverse"
    ELSE "Off"

\* Tri-state of a speed value under the 0.1 deadzone
Tri(v) == IF v > Deadzone THEN "Forward" ELSE IF v < -Deadzone THEN "Reverse" ELSE "Off"

Opposite(st) ==
    IF st = "Forward" THEN "Reverse" ELSE IF st = "Reverse" THEN "Forward" ELSE "Off"

\* What drive() leaves for the command (t, r) under mode m4
Resolved(t, r, m4) == DriveResult(VLeft(t, r), VRight(t, r), m4)

\* A joystick tick has just completed
TickEnd == Idle /\ handler = "update" /\ joy

\* drive() has just returned
DriveDone == pc = "drive_return"

GuiInput == {"on_press", "on_drag", "button_quick"}

----------------------------------------------------------------------------
(* C1 *)

\* C1: in every reachable state, the states inside drive() included, no wheel
\* has both its forward and its reverse channel asserted.
C1_NoForwardAndReverse ==
    \A w \in Wheels : ~(chan[FwdOf[w]] /\ chan[RevOf[w]])

\* Inside drive(), between stop_all() and the last channel write, FL has been
\* set to reverse in a callback that started with the command full forward.
C1_Witness ==
    /\ pc = "apply_wheel"
    /\ todo # << >>
    /\ Head1.op = "apply_wheel"
    /\ pre = <<Scale, 0>>
    /\ chan[FL_REV]

----------------------------------------------------------------------------
(* C2 *)

\* C2 (as claimed): whenever no callback is running and the window is open,
\* the asserted channels are exactly those that resolving the stored
\* (throttle, turn) under the current mode produces.
C2_OutputsFollowCurrentMode ==
    (Idle /\ ~closed) => chan = Resolved(throttle, turn, mode_4wd)

----------------------------------------------------------------------------
(* C3 *)

\* C3: at the end of a joystick tick with none of A, B, X pressed, the stored
\* command is (axis 1, axis 0) and the channels are those drive() produces
\* for it, whatever command was stored before the tick.
C3_AxesActuated ==
    (TickEnd /\ ~btn.A /\ ~btn.B /\ ~btn.X) =>
        /\ throttle = ly
        /\ turn = lx
        /\ chan = Resolved(ly, lx, mode_4wd)

\* manual (0.5, 0) before the tick, controller (-1, 0): (-1, 0) is actuated
C3_Witness ==
    /\ TickEnd /\ ~btn.A /\ ~btn.B /\ ~btn.X
    /\ pre = <<Scale \div 2, 0>>
    /\ ly = -Scale /\ lx = 0
    /\ throttle = -Scale /\ turn = 0
    /\ chan[FL_REV]

----------------------------------------------------------------------------
(* C4 *)

\* C4 (as claimed): with a controller attached, a canvas press/drag or a GUI
\* quick button leaves the set of asserted channels as it was before the event.
C4_GuiLeavesOutputs ==
    (Idle /\ joy /\ handler \in GuiInput) => chan = guiChan

----------------------------------------------------------------------------
(* C5 *)

\* C5 (as claimed): after a tick with both LB and RB pressed the mode is 4WD.
C5_BothPressedGivesFourWheel ==
    (TickEnd /\ btn.LB /\ btn.RB) => mode_4wd

\* C5 (amended): after a tick with both LB and RB pressed the mode is eco,
\* whatever it was before the tick.
C5_BothPressedGivesEco ==
    (TickEnd /\ btn.LB /\ btn.RB) => ~mode_4wd

\* both pressed in a tick that started in 4WD
C5_Witness ==
    TickEnd /\ btn.LB /\ btn.RB /\ preMode /\ ~mode_4wd

----------------------------------------------------------------------------
(* C6 *)

AxisCmd == <<ly, lx>>
Cmd == <<throttle, turn>>
Actuated(c) == Cmd = c /\ chan = Resolved(c[1], c[2], mode_4wd)

\* C6 (as claimed): at the end of a joystick tick every held quick button has
\* its canonical pair actuated, and with none held the axis pair is actuated.
C6_EveryHeldButtonActuated ==
    TickEnd =>
        /\ btn.A => Actuated(<<Scale, 0>>)
        /\ btn.B => Actuated(<<0, Scale>>)
        /\ btn.X => Actuated(<<0, 0>>)
        /\ (~btn.A /\ ~btn.B /\ ~btn.X) => Actuated(AxisCmd)

\* The pair of the held quick button tested last in update(): X, else B, else A
LastHeld(b) ==
    IF b.X THEN <<0, 0>>
    ELSE IF b.B THEN <<0, Scale>>
    ELSE IF b.A THEN <<Scale, 0>>
    ELSE AxisCmd

\* C6 (amended): at the end of a joystick tick the actuated command is the
\* canonical pair of the held quick button tested last (X over B over A), on
\* every tick it is held, and the axis pair when none is held.
C6_LastHeldButtonActuated ==
    TickEnd => Actuated(LastHeld(btn))

\* A alone held on two consecutive ticks, axes at (-1, 0): (1, 0) is actuated
C6_Witness ==
    /\ TickEnd /\ btn.A /\ ~btn.B /\ ~btn.X
    /\ prevQuick /\ pre = <<Scale, 0>>
    /\ AxisCmd = <<-Scale, 0>>
    /\ Cmd = <<Scale, 0>>
    /\ chan[FL_FWD]

----------------------------------------------------------------------------
(* C7 *)

\* C7: once on_close() has run, all eight channels are de-asserted; nothing
\* runs after it, so they stay de-asserted.
C7_ClosedAllOff ==
    closed => chan = AllOffChan

\* on_close() ran from a state with channels asserted, in eco mode
C7_Witness ==
    closed /\ handler = "on_close" /\ guiChan[FL_FWD] /\ ~mode_4wd /\ joy

----------------------------------------------------------------------------
(* C8 *)

\* C8 (as claimed): after drive() in 4WD mode, FL and RL have the same
\* tri-state and so have FR and RR.
C8_RearEqualsFront ==
    (DriveDone /\ mode_4wd) =>
        /\ WheelState("FL") = WheelState("RL")
        /\ WheelState("FR") = WheelState("RR")

\* C8 (amended): after drive() in 4WD mode, FL has the tri-state of v_left and
\* FR that of v_right, and each rear wheel has the opposite channel of the
\* front wheel of its side (Off with Off).
C8_RearOppositeFront ==
    (DriveDone /\ mode_4wd) =>
        /\ WheelState("FL") = Tri(v_l)
        /\ WheelState("FR") = Tri(v_r)
        /\ WheelState("RL") = Opposite(WheelState("FL"))
        /\ WheelState("RR") = Opposite(WheelState("FR"))

\* throttle 0, turn 1 in 4WD: FL forward, RL reverse, FR reverse, RR forward
C8_Witness ==
    /\ DriveDone /\ mode_4wd
    /\ Cmd = <<0, Scale>>
    /\ chan[FL_FWD] /\ chan[RL_REV] /\ chan[FR_REV] /\ chan[RR_FWD]

----------------------------------------------------------------------------
(* C9 *)

\* C9: after every drive() in eco mode both channels of FR and of RL are off,
\* FL is non-Off exactly when |v_l| > 0.1 and RR exactly when |v_r| > 0.1.
C9_EcoDrivesFLandRR ==
    (DriveDone /\ ~mode_4wd) =>
        /\ ~chan[FR_FWD] /\ ~chan[FR_REV]
        /\ ~chan[RL_FWD] /\ ~chan[RL_REV]
        /\ (WheelState("FL") # "Off") <=> (Abs(v_l) > Deadzone)
        /\ (WheelState("RR") # "Off") <=> (Abs(v_r) > Deadzone)

\* drive() in eco mode from a state in which FR and RL were asserted
C9_Witness ==
    /\ DriveDone /\ ~mode_4wd
    /\ handler \in GuiInput
    /\ guiChan[FR_FWD] /\ guiChan[RL_REV]
    /\ WheelState("FL") # "Off" /\ WheelState("RR") # "Off"

----------------------------------------------------------------------------
(* C10 *)

InDeadzone(t, r) == Abs(t + r) <= Deadzone /\ Abs(t - r) <= Deadzone

\* C10: when |throttle + turn| <= 0.1 and |throttle - turn| <= 0.1, all eight
\* channels are off after the command is applied, in both modes.
C10_DeadzoneAllOff ==
    (DriveDone /\ InDeadzone(throttle, turn)) => chan = AllOffChan

\* throttle 0.05, turn 0.03 applied in eco mode
C10_Witness ==
    /\ DriveDone /\ ~mode_4wd
    /\ throttle = Scale \div 20
    /\ turn = (3 * Scale) \div 100
    /\ chan = AllOffChan

----------------------------------------------------------------------------
(* C11 *)

ModeSteps == {"set_4wd", "set_eco"}

\* The step just taken is the body of set_4wd() / set_eco(), run for the GUI
\* button or for a tick whose sample has the mode button pressed
ModeCommand ==
    \/ pc' = "set_4wd" /\ (handler = "button_LB" \/ (handler = "update" /\ btn.LB))
    \/ pc' = "set_eco" /\ (handler = "button_RB" \/ (handler = "update" /\ btn.RB))

\* C11: the mode is 4WD at start; only a step of set_4wd()/set_eco(), run for
\* a GUI LB/RB button or a pressed joystick button 4/5, changes it (drive(),
\* stop_all(), quick(), press/drag, on_close() and a tick without mode button
\* leave it alone); set_4wd() always leaves 4WD and set_eco() always leaves
\* eco, so a button held over consecutive ticks keeps the selected mode.
C11_ModeOnlyByModeSwitch ==
    /\ mode_4wd = TRUE
    /\ [][ /\ (mode_4wd' # mode_4wd) => ModeCommand
           /\ (pc' = "set_4wd") => (ModeCommand /\ mode_4wd')
           /\ (pc' = "set_eco") => (ModeCommand /\ ~mode_4wd')
           /\ (pc' \notin ModeSteps) => (mode_4wd' = mode_4wd) ]_vars
    /\ [](TickEnd =>
            /\ (~btn.LB /\ ~btn.RB) => (mode_4wd = preMode)
            /\ (btn.LB /\ ~btn.RB) => mode_4wd
            /\ (btn.RB /\ ~btn.LB) => ~mode_4wd)

\* RB held on a tick that started in eco mode: the mode is still eco
C11_Witness ==
    TickEnd /\ btn.RB /\ ~btn.LB /\ ~preMode /\ ~mode_4wd /\ chan[FL_FWD]

----------------------------------------------------------------------------
(* C12 *)

\* C12: the channels drive() leaves are a function of (v_l, v_r, mode) alone:
\* after every drive() they are what the wheel writes of that call produce
\* from all-off, whatever was asserted before the call; so a second call with
\* the same arguments and mode leaves what the first one left.
C12_DriveIsFunctionOfArgs ==
    DriveDone => chan = DriveResult(v_l, v_r, mode_4wd)

\* The second of two consecutive drive(1, 1) calls of one tick (A held, no
\* mode button), in a tick that started with the command full reverse
C12_Witness ==
    /\ TickEnd /\ DriveDone
    /\ btn.A /\ ~btn.B /\ ~btn.X /\ ~btn.LB /\ ~btn.RB
    /\ resets = 2
    /\ pre = <<-Scale, 0>>
    /\ v_l = Scale /\ v_r = Scale
    /\ chan = DriveResult(Scale, Scale, mode_4wd)

----------------------------------------------------------------------------
(* C13 *)

\* C13 (as claimed): at the end of a tick that ran after the joystick was
\* unplugged, the stored command is the one the manual surface had stored
\* before the tick and the channels are those drive() produces for it.
C13_DisconnectFallsBackToManual ==
    (TickEnd /\ DriveDone /\ ~connected) =>
        /\ Cmd = pre
        /\ chan = Resolved(pre[1], pre[2], mode_4wd)

----------------------------------------------------------------------------
(* The EcoAdaptive policy of the specification (section 4.1, step 4); car.py  *)
(* has the two modes of mode_4wd only                                       *)

\* Commands tried: multiples of 0.05 in [-1, 1]
AdaptiveGrid == { k * (Scale \div 20) : k \in -20..20 }

\* resolve(throttle, turn, EcoAdaptive): the tri-state of each wheel.  fwd and
\* trn are compared through 2 * fwd = v_l + v_r and 2 * trn = v_l - v_r.
AdaptiveStates(vl, vr) ==
    LET sum == vl + vr
        dif == vl - vr
        off == [w \in Wheels |-> "Off"]
    IN  IF Abs(sum) > Abs(dif)
        THEN IF sum > 0
             THEN [off EXCEPT !["RL"] = Tri(vl), !["RR"] = Tri(vr)]
             ELSE [off EXCEPT !["FL"] = Tri(vl), !["FR"] = Tri(vr)]
        ELSE IF dif > 0
             THEN [off EXCEPT !["FL"] = Tri(vl), !["RL"] = Tri(vl)]
             ELSE IF dif < 0
                  THEN [off EXCEPT !["FR"] = Tri(vr), !["RR"] = Tri(vr)]
                  ELSE off

\* The channel values realising a tri-state per wheel
ChannelsOf(st) ==
    [c \in Channels |->
        \E w \in Wheels : \/ c = FwdOf[w] /\ st[w] = "Forward"
                          \/ c = RevOf[w] /\ st[w] = "Reverse"]

InitAdaptive ==
    /\ chan = AllOffChan
    /\ mode_4wd = FALSE
    /\ throttle \in AdaptiveGrid
    /\ turn \in AdaptiveGrid
    /\ joy = FALSE
    /\ closed = FALSE
    /\ handler = "resolve_adaptive"
    /\ todo = << >>
    /\ pc = "init"
    /\ lx = 0
    /\ ly = 0
    /\ btn = NoButtons
    /\ v_l = 0
    /\ v_r = 0
    /\ pre = <<0, 0>>
    /\ preMode = FALSE
    /\ guiChan = AllOffChan
    /\ quickHeld = FALSE
    /\ prevQuick = FALSE
    /\ connected = TRUE
    /\ ticking = TRUE
    /\ resets = 0

\* One resolution in EcoAdaptive mode: clamp, differential pair, assignment
resolve_adaptive ==
    /\ pc = "init"
    /\ handler = "resolve_adaptive"
    /\ pc' = "resolve_adaptive"
    /\ v_l' = VLeft(Clamp(throttle), Clamp(turn))
    /\ v_r' = VRight(Clamp(throttle), Clamp(turn))
    /\ chan' = ChannelsOf(AdaptiveStates(v_l', v_r'))
    /\ UNCHANGED <<mode_4wd, throttle, turn, joy, closed, handler, todo, lx, ly,
                   btn, pre, preMode, guiChan, quickHeld, prevQuick, connected,
                   ticking, resets>>

SpecAdaptive == InitAdaptive /\ [][resolve_adaptive]_vars

NonOff == { w \in Wheels : WheelState(w) # "Off" }

----------------------------------------------------------------------------
(* C14 *)

\* C14 (as claimed): after a resolution in EcoAdaptive mode the number of
\* non-Off wheels is 0 or 2.
C14_AdaptiveZeroOrTwo ==
    (pc = "resolve_adaptive") => Cardinality(NonOff) \in {0, 2}

----------------------------------------------------------------------------
(* C15 *)

\* Some channel is switched on by the step
Asserts == \E c \in Channels : chan'[c] /\ ~chan[c]

\* C15 (as claimed): every tick, with or without a controller, has issued an
\* all-off when it ends, and all eight channels are off when the wheel writes
\* of a drive() start.
C15_EveryTickResets ==
    /\ (Idle /\ handler = "update") => resets >= 1
    /\ (handler = "update" /\ pc = "drive_mode") => chan = AllOffChan

\* C15 (amended): every tick with a controller attached has issued an all-off
\* when it ends, also when the command and mode are those of the previous
\* tick; all eight channels are off when the wheel writes of a drive() start;
\* a channel is switched on only by a wheel write, after an all-off of the
\* same tick; a tick without a controller writes no channel at all.
C15_JoystickTickResetsFirst ==
    /\ [](TickEnd => resets >= 1)
    /\ []((handler = "update" /\ pc = "drive_mode") => chan = AllOffChan)
    /\ [][ /\ (handler' = "update" /\ Asserts) => (pc' = "apply_wheel" /\ resets' >= 1)
           /\ (pc' = "apply_wheel") => (pc \in {"drive_mode", "apply_wheel"})
           /\ (pc' = "update" /\ ~joy) => (chan' = chan /\ todo' = << >>) ]_vars

\* a tick that repeats the command and mode of the tick before it
C15_Witness ==
    /\ TickEnd /\ btn = NoButtons
    /\ pre = Cmd /\ preMode = mode_4wd
    /\ Cmd = <<-Scale, 0>>
    /\ chan = Resolved(-Scale, 0, mode_4wd)
    /\ resets = 1

----------------------------------------------------------------------------
(* C16 *)

\* A drive() call of a joystick tick has just returned
TickDriveDone == handler = "update" /\ joy /\ DriveDone

\* C16 (as claimed): every drive() of a tick in which one mode button is
\* pressed has run under the mode that button selects.
C16_DriveUnderSelectedMode ==
    TickDriveDone =>
        /\ (btn.LB /\ ~btn.RB) => mode_4wd
        /\ (btn.RB /\ ~btn.LB) => ~mode_4wd

----------------------------------------------------------------------------
(* C17 *)

\* C17 (as claimed): a joystick tick runs stop_all() and the wheel writes at
\* most once, and every drive() of the tick actuates the arbitrated command.
C17_OneSnapshotPerTick ==
    (handler = "update" /\ joy) =>
        /\ resets <= 1
        /\ DriveDone => Cmd = LastHeld(btn)

----------------------------------------------------------------------------
(* C18 *)

\* Stored commands handed to CarApp.apply(), in steps of 0.2 from -1.6 to
\* 1.6: values inside and outside [-1, 1]
RawVals == { k * (Scale \div 5) : k \in -8..8 }

\* One call of CarApp.apply() on an arbitrary stored command and mode
InitApply ==
    /\ chan = AllOffChan
    /\ mode_4wd \in BOOLEAN
    /\ throttle \in RawVals
    /\ turn \in RawVals
    /\ joy = FALSE
    /\ closed = FALSE
    /\ handler = "apply"
    /\ todo = << Op("apply", "", 0, 0) >>
    /\ pc = "init"
    /\ lx = 0
    /\ ly = 0
    /\ btn = NoButtons
    /\ v_l = 0
    /\ v_r = 0
    /\ pre = <<throttle, turn>>
    /\ preMode = mode_4wd
    /\ guiChan = AllOffChan
    /\ quickHeld = FALSE
    /\ prevQuick = FALSE
    /\ connected = TRUE
    /\ ticking = TRUE
    /\ resets = 0

NextApply ==
    \/ apply
    \/ m_off
    \/ drive_mode
    \/ apply_wheel
    \/ drive_return

SpecApply == InitApply /\ [][NextApply]_vars

----------------------------------------------------------------------------
(* C19 *)

\* C19: a tick of update() with no controller attached is a single step that
\* leaves throttle, turn, the drive mode and all eight channels as they were
\* and schedules nothing further: no quick action, no mode switch, no drive().
C19_NoControllerTickIsNoOp ==
    /\ []((handler = "update" /\ ~joy) =>
              /\ Idle
              /\ Cmd = pre
              /\ mode_4wd = preMode)
    /\ [][ (pc' = "update" /\ ~joy) =>
              /\ throttle' = throttle
              /\ turn' = turn
              /\ mode_4wd' = mode_4wd
              /\ chan' = chan
              /\ todo' = << >> ]_vars

\* a tick without controller, on a nonzero manual command actuated in eco mode
C19_Witness ==
    /\ pc = "update" /\ ~joy /\ Idle
    /\ ~mode_4wd
    /\ Cmd # <<0, 0>>
    /\ chan # AllOffChan

----------------------------------------------------------------------------
(* C20 *)

\* C20: at the end of a tick in which controller button X is held, the stored
\* command is (0, 0) and all eight channels are de-asserted, whatever the
\* axes, the other held buttons and the drive mode are.
C20_StopWins ==
    (TickEnd /\ btn.X) => (Cmd = <<0, 0>> /\ chan = AllOffChan)

\* X held together with A, B and a mode button, the stick deflected, after a
\* tick that left wheels driven
C20_Witness ==
    /\ TickEnd /\ btn.X /\ btn.A /\ btn.B /\ (btn.LB \/ btn.RB)
    /\ <<lx, ly>> # <<0, 0>>
    /\ pre # <<0, 0>>
    /\ Cmd = <<0, 0>> /\ chan = AllOffChan

====
